---- MODULE Spec2Model ----
(***************************************************************************)
(* A model of the in-memory file cache of src/filecache.go: the item       *)
(* store, the staleness and eviction policies, the ingestion pipeline      *)
(* (Cache / item_listener / add_item), the maintenance loop (vaccuum) and  *)
(* the read/write facade, together with the filesystem and the clock the   *)
(* cache observes.                                                         *)
(*                                                                         *)
(* Time is counted in tenths of a second.  Every call of the foreground    *)
(* caller is one action; the background goroutines take one action per     *)
(* blocking point or filesystem access.                                    *)
(***************************************************************************)
EXTENDS Integers, Sequences, FiniteSets, Bags, TLC

\* ---------------------------------------------------------------- bounds

\* How many calls the foreground caller makes.
MaxOps == 4
\* How many seconds the clock advances.
MaxTicks == 1
\* How many times the environment writes or removes a file.
MaxFsOps == 1
\* The staleness policy alone (SpecExpired): the largest ExpireItem, in seconds,
\* and the largest age of an entry, in tenths of a second.
MaxExpireItem == 3
MaxAge == 35
\* The eviction policy alone (SpecEvict): how many calls of CacheNow are made.
MaxEvictOps == 4
\* The read facade alone (SpecFacade): how many calls the caller makes.
MaxFacadeOps == 3
\* The store accesses alone (SpecRace): how many calls the caller makes.
MaxRaceOps == 2
\* The end of the goroutines (SpecLive): how many calls the caller makes.
MaxLiveOps == 3
\* The queue alone (SpecQueue): how many calls of Cache are made.
MaxQueueOps == 6

\* ---------------------------------------------------------- configuration

\* FileCache.MaxSize, in bytes.
MaxSize == 1
\* The values of MaxItems, ExpireItem (seconds) and Every (seconds) the cache
\* is constructed with.
Configs == [MaxItems : {1, 2}, ExpireItem : {0, 1}, Every : {0, 1}]

\* ------------------------------------------------------ program constants

NewCachePipeSize == 4

\* The error values of the package, nil, and the filesystem's own errors.
Nil == "nil"
ItemIsDirectory == "can't cache a directory"
ItemNotInCache == "item not in cache"
ItemTooLarge == "item too large for cache"
WriteIncomplete == "incomplete write of cache item"
ENOENT == "no such file or directory"
EISDIR == "is a directory"

\* ------------------------------------------------------------ the universe

\* Paths; "d" is a directory wherever the filesystem is said to have one.
Names == {"a", "b", "d"}
NoName == ""
\* File contents, as byte sequences; the last is larger than MaxSize = 1.
Contents == {<<1>>, <<2>>, <<3, 3>>}
NoContent == <<>>

VARIABLES
    cfg,        \* MaxItems, ExpireItem, Every of the FileCache
    items,      \* cache.items: name -> cacheItem
    itemsNil,   \* cache.items == nil
    chans,      \* every queue made so far; cache.in_pipe is the last one
    workers,    \* the item_listener goroutine of each Start
    vacs,       \* the vaccuum goroutine of each Start
    tasks,      \* the names of the goroutines started to run Cache(name)
    blocked,    \* the sends blocked on a full queue
    fs,         \* the filesystem: name -> kind, content, mtime
    now,        \* the clock, in tenths of a second
    left,       \* what remains of the budgets of the bounds
    ret,        \* what the caller's last call returned (ok: whether the store
                \* answered a read, whether Remove removed)
    panic       \* the panic that ended the process, if any

vars == <<cfg, items, itemsNil, chans, workers, vacs, tasks, blocked, fs, now, left, ret, panic>>

NoPanic == "none"
CloseOfClosed == "close of closed channel"
SendOnClosed == "send on closed channel"
NilMapWrite == "assignment to entry in nil map"
ConcurrentMap == "concurrent map iteration and map write"

\* ------------------------------------------------------------- the store

EmptyMap == [n \in {} |-> 0]

Put(m, name, itm) == [n \in DOMAIN m \cup {name} |-> IF n = name THEN itm ELSE m[n]]

Del(m, name) == [n \in DOMAIN m \ {name} |-> m[n]]

in_pipe == Len(chans)

Active == in_pipe # 0 /\ ~itemsNil

Size == Cardinality(DOMAIN items)

InCache(name) == name \in DOMAIN items

\* -------------------------------------------------------- the filesystem

\* os.Stat(name): the error, or the FileInfo.
Stat(name) ==
    IF fs[name].kind = "none"
    THEN [err |-> ENOENT, isDir |-> FALSE, size |-> 0, mtime |-> 0]
    ELSE [err |-> Nil, isDir |-> fs[name].kind = "dir",
          size |-> Len(fs[name].content), mtime |-> fs[name].mtime]

\* ioutil.ReadFile(name): the error, or the bytes of the file.
ReadAll(name) ==
    CASE fs[name].kind = "none" -> [err |-> ENOENT, content |-> NoContent]
      [] fs[name].kind = "dir"  -> [err |-> EISDIR, content |-> NoContent]
      [] OTHER                  -> [err |-> Nil, content |-> fs[name].content]

\* ---------------------------------------------------- the staleness policy

\* changed without its comparison of the modification times.
changed_ignoring_mtime(m, name) ==
    IF name \notin DOMAIN m THEN TRUE
    ELSE Stat(name).err # Nil

\* FileCache.changed: the entry is missing, the stat fails or the mtime differs.
changed(m, name) ==
    IF name \notin DOMAIN m THEN TRUE
    ELSE IF Stat(name).err # Nil THEN TRUE
    ELSE m[name].Modified # Stat(name).mtime

\* strconv.Atoi(fmt.Sprintf("%0.0f", dur.Seconds())) of a duration of ds tenths
\* of a second: the nearest whole number of seconds, a half going to the even one.
RoundedSeconds(ds) ==
    LET q == ds \div 10
        r == ds % 10
    IN  IF r < 5 THEN q
        ELSE IF r > 5 THEN q + 1
        ELSE IF q % 2 = 0 THEN q ELSE q + 1

\* FileCache.expired at time t, for a cache whose ExpireItem is expire.
expired(m, name, t, expire) ==
    IF name \notin DOMAIN m THEN TRUE
    ELSE RoundedSeconds(t - m[name].Lastaccess) >= expire

\* item_expired with the whole check skipped when ExpireItem is 0.
item_expired_unless_zero(m, name) ==
    cfg.ExpireItem # 0 /\ (changed(m, name) \/ expired(m, name, now, cfg.ExpireItem))

\* FileCache.item_expired.
item_expired(m, name) ==
    IF changed(m, name) THEN TRUE
    ELSE cfg.ExpireItem # 0 /\ expired(m, name, now, cfg.ExpireItem)

\* ----------------------------------------------------- the eviction policy

\* OldestNames without its comparison of the access times.
OldestNames_any(m, force) ==
    {n \in DOMAIN m : force \/ m[n].Lastaccess < now}

\* The names expire_oldest may delete: the map is ranged over in any order, so
\* the one deleted is any entry of the least Lastaccess (when not forced, only
\* one accessed before now).
OldestNames(m, force) ==
    {n \in DOMAIN m :
        /\ \A o \in DOMAIN m : m[n].Lastaccess <= m[o].Lastaccess
        /\ (force \/ m[n].Lastaccess < now)}

\* FileCache.expire_oldest: every map it may leave.
expire_oldest(m, force) ==
    IF OldestNames(m, force) = {} THEN {m}
    ELSE {Del(m, v) : v \in OldestNames(m, force)}

\* --------------------------------------------------------------- add_item

\* add_item_stat without the test for a directory.
add_item_stat_any_mode(m, name) ==
    LET ok == name \in DOMAIN m
        exp == item_expired(m, name)
        m1 == IF ok /\ exp THEN Del(m, name) ELSE m
        fi == Stat(name)
    IN  IF ok /\ ~exp THEN [m |-> m, done |-> TRUE, err |-> Nil, fi |-> fi]
        ELSE IF fi.err # Nil THEN [m |-> m1, done |-> TRUE, err |-> fi.err, fi |-> fi]
        ELSE IF fi.size > MaxSize THEN [m |-> m1, done |-> TRUE, err |-> ItemTooLarge, fi |-> fi]
        ELSE [m |-> m1, done |-> FALSE, err |-> Nil, fi |-> fi]

\* add_item up to its os.Stat (lines 257-272): the map it leaves, the error it
\* returns there (Nil when it goes on to read the file), and the FileInfo.
add_item_stat(m, name) ==
    LET ok == name \in DOMAIN m
        exp == item_expired(m, name)
        m1 == IF ok /\ exp THEN Del(m, name) ELSE m
        fi == Stat(name)
    IN  IF ok /\ ~exp THEN [m |-> m, done |-> TRUE, err |-> Nil, fi |-> fi]
        ELSE IF fi.err # Nil THEN [m |-> m1, done |-> TRUE, err |-> fi.err, fi |-> fi]
        ELSE IF fi.isDir THEN [m |-> m1, done |-> TRUE, err |-> ItemIsDirectory, fi |-> fi]
        ELSE IF fi.size > MaxSize THEN [m |-> m1, done |-> TRUE, err |-> ItemTooLarge, fi |-> fi]
        ELSE [m |-> m1, done |-> FALSE, err |-> Nil, fi |-> fi]

\* add_item from its ioutil.ReadFile on (lines 274-288), with the size and
\* mtime its os.Stat saw: the map it leaves, the error, and whether the
\* assignment into a nil map panics.
add_item_read(m, isNil, name, size, mtime) ==
    LET rd == ReadAll(name)
        itm == [Content |-> rd.content, Size |-> size,
                Modified |-> mtime, Lastaccess |-> now]
    IN  IF rd.err # Nil THEN [m |-> m, err |-> rd.err, panics |-> FALSE]
        ELSE IF isNil THEN [m |-> m, err |-> Nil, panics |-> TRUE]
        ELSE [m |-> Put(m, name, itm), err |-> Nil, panics |-> FALSE]

\* add_item run in one piece, as the caller's CacheNow runs it.
add_item(m, isNil, name) ==
    LET st == add_item_stat(m, name)
    IN  IF st.done THEN [m |-> st.m, err |-> st.err, panics |-> FALSE]
        ELSE add_item_read(st.m, isNil, name, st.fi.size, st.fi.mtime)

\* ------------------------------------------------------------ construction

NoRet == [op |-> "none", name |-> NoName, err |-> Nil, content |-> NoContent, ok |-> FALSE]

Ret(op, name, err, content, ok) ==
    [op |-> op, name |-> name, err |-> err, content |-> content, ok |-> ok]

File(c, t) == [kind |-> "file", content |-> c, mtime |-> t]

\* NewCache, with the fields a caller sets before Start; the cache is inert.
\* The filesystem holds two regular files and a directory.
Init ==
    /\ cfg \in Configs
    /\ items = EmptyMap
    /\ itemsNil = TRUE
    /\ chans = <<>>
    /\ workers = <<>>
    /\ vacs = <<>>
    /\ tasks = EmptyBag
    /\ blocked = EmptyBag
    /\ fs = [n \in Names |->
                IF n = "d" THEN [kind |-> "dir", content |-> NoContent, mtime |-> -1]
                ELSE File(<<1>>, -1)]
    /\ now = 0
    /\ left = [ops |-> MaxOps, fsops |-> MaxFsOps]
    /\ ret = NoRet
    /\ panic = NoPanic

\* ---------------------------------------------------------- the goroutines

Waiting(c) == [pc |-> "recv", ch |-> c, name |-> NoName, size |-> 0, mtime |-> 0]

Reading(c, name, fi) == [pc |-> "read", ch |-> c, name |-> name, size |-> fi.size, mtime |-> fi.mtime]

Returned == [pc |-> "done", ch |-> 0, name |-> NoName, size |-> 0, mtime |-> 0]

\* vaccuum: it sleeps Every seconds before each cycle; swept is the set of names
\* its latest cycle found expired and deleted.
Sleeping(swept) == [pc |-> "sleep", wake |-> now + 10 * cfg.Every, swept |-> swept]

Ended == [pc |-> "done", wake |-> 0, swept |-> {}]

\* vaccuum before its loop (lines 359-366): it returns when Every < 1.
vaccuum_start == IF cfg.Every < 1 THEN Ended ELSE Sleeping({})

\* Cache up to its send (lines 308-310): every map it may leave.
cache_evict(m) == IF Cardinality(DOMAIN m) = cfg.MaxItems THEN expire_oldest(m, TRUE) ELSE {m}

\* The budgets after one more call of the caller, and after one more step of
\* the environment.
Called == [left EXCEPT !.ops = @ - 1]

Passed == [left EXCEPT !.fsops = @ - 1]

\* ------------------------------------------------------- Start and Stop

\* close(cache.in_pipe) of Start and Stop panics on a queue already closed.
ClosePanics == in_pipe # 0 /\ chans[in_pipe].closed

Closed == IF in_pipe = 0 THEN chans ELSE [chans EXCEPT ![in_pipe].closed = TRUE]

Start ==
    /\ panic = NoPanic
    /\ left.ops > 0
    /\ IF ClosePanics
       THEN /\ panic' = CloseOfClosed
            /\ UNCHANGED <<cfg, items, itemsNil, chans, workers, vacs, tasks, blocked, fs, now, left, ret>>
       ELSE /\ items' = EmptyMap
            /\ itemsNil' = FALSE
            /\ chans' = Append(Closed, [closed |-> FALSE, buf |-> <<>>])
            /\ workers' = Append(workers, Waiting(Len(chans) + 1))
            /\ vacs' = Append(vacs, vaccuum_start)
            /\ ret' = Ret("Start", NoName, Nil, NoContent, TRUE)
            /\ left' = Called
            /\ UNCHANGED <<cfg, tasks, blocked, fs, now, panic>>

Stop ==
    /\ panic = NoPanic
    /\ left.ops > 0
    /\ IF ClosePanics
       THEN /\ panic' = CloseOfClosed
            /\ UNCHANGED <<cfg, items, itemsNil, chans, workers, vacs, tasks, blocked, fs, now, left, ret>>
       ELSE /\ chans' = Closed
            /\ items' = EmptyMap
            /\ itemsNil' = TRUE
            /\ ret' = Ret("Stop", NoName, Nil, NoContent, TRUE)
            /\ left' = Called
            /\ UNCHANGED <<cfg, workers, vacs, tasks, blocked, fs, now, panic>>

\* ---------------------------------------------------------- population

CacheNow(name) ==
    /\ panic = NoPanic
    /\ left.ops > 0
    /\ \E m \in cache_evict(items) :
        LET r == add_item(m, itemsNil, name)
        IN  IF r.panics
            THEN /\ panic' = NilMapWrite
                 /\ UNCHANGED <<items, ret, left>>
            ELSE /\ items' = r.m
                 /\ ret' = Ret("CacheNow", name, r.err, NoContent, r.err = Nil)
                 /\ left' = Called
                 /\ UNCHANGED panic
    /\ UNCHANGED <<cfg, itemsNil, chans, workers, vacs, tasks, blocked, fs, now>>

\* Cache (lines 307-312): its eviction, then its send on the queue, which
\* panics on a closed queue; a send on a nil queue blocks for ever, and one on
\* a full queue blocks until the worker receives (BlockedSend).
cache_send(name, m) ==
    /\ items' = m
    /\ IF in_pipe = 0
       THEN UNCHANGED <<chans, blocked, panic>>
       ELSE IF chans[in_pipe].closed
       THEN /\ panic' = SendOnClosed
            /\ UNCHANGED <<chans, blocked>>
       ELSE IF Len(chans[in_pipe].buf) < NewCachePipeSize
       THEN /\ chans' = [chans EXCEPT ![in_pipe].buf = Append(@, name)]
            /\ UNCHANGED <<blocked, panic>>
       ELSE /\ blocked' = blocked (+) SetToBag({[name |-> name, ch |-> in_pipe]})
            /\ UNCHANGED <<chans, panic>>

\* Cache called by the caller.
Cache(name) ==
    /\ panic = NoPanic
    /\ left.ops > 0
    /\ left' = Called
    /\ \E m \in cache_evict(items) : cache_send(name, m)
    /\ ret' = Ret("Cache", name, Nil, NoContent, TRUE)
    /\ UNCHANGED <<cfg, itemsNil, workers, vacs, tasks, fs, now>>

\* A goroutine started by `go cache.Cache(name)` runs Cache.
TaskCache(name) ==
    /\ panic = NoPanic
    /\ tasks' = tasks (-) SetToBag({name})
    /\ \E m \in cache_evict(items) : cache_send(name, m)
    /\ UNCHANGED <<cfg, itemsNil, workers, vacs, fs, now, left, ret>>

\* A send blocked on a full queue completes once there is room, and panics
\* once the queue is closed.
BlockedSend(t) ==
    /\ panic = NoPanic
    /\ IF chans[t.ch].closed
       THEN /\ panic' = SendOnClosed
            /\ UNCHANGED <<chans, blocked>>
       ELSE /\ Len(chans[t.ch].buf) < NewCachePipeSize
            /\ chans' = [chans EXCEPT ![t.ch].buf = Append(@, t.name)]
            /\ blocked' = blocked (-) SetToBag({t})
            /\ UNCHANGED panic
    /\ UNCHANGED <<cfg, items, itemsNil, workers, vacs, tasks, fs, now, left, ret>>

\* WorkerRecv with an item_listener that returns when add_item fails.
WorkerRecv_failing(i) ==
    /\ panic = NoPanic
    /\ workers[i].pc = "recv"
    /\ LET c == workers[i].ch
       IN  IF chans[c].buf # <<>>
           THEN LET name == Head(chans[c].buf)
                    st == add_item_stat(items, name)
                IN  /\ chans' = [chans EXCEPT ![c].buf = Tail(@)]
                    /\ items' = st.m
                    /\ workers' = [workers EXCEPT ![i] =
                          IF st.done /\ st.err # Nil THEN Returned
                          ELSE IF st.done THEN Waiting(in_pipe)
                          ELSE Reading(c, name, st.fi)]
           ELSE /\ chans[c].closed
                /\ workers' = [workers EXCEPT ![i] = Returned]
                /\ UNCHANGED <<chans, items>>
    /\ UNCHANGED <<cfg, itemsNil, vacs, tasks, blocked, fs, now, left, ret, panic>>

\* item_listener receives a name and runs add_item up to its os.Stat; it
\* returns when the queue is closed and drained.
WorkerRecv(i) ==
    /\ panic = NoPanic
    /\ workers[i].pc = "recv"
    /\ LET c == workers[i].ch
       IN  IF chans[c].buf # <<>>
           THEN LET name == Head(chans[c].buf)
                    st == add_item_stat(items, name)
                IN  /\ chans' = [chans EXCEPT ![c].buf = Tail(@)]
                    /\ items' = st.m
                    /\ workers' = [workers EXCEPT ![i] =
                          IF st.done THEN Waiting(in_pipe) ELSE Reading(c, name, st.fi)]
           ELSE /\ chans[c].closed
                /\ workers' = [workers EXCEPT ![i] = Returned]
                /\ UNCHANGED <<chans, items>>
    /\ UNCHANGED <<cfg, itemsNil, vacs, tasks, blocked, fs, now, left, ret, panic>>

\* item_listener runs add_item from its ioutil.ReadFile on, and loops.
WorkerRead(i) ==
    /\ panic = NoPanic
    /\ workers[i].pc = "read"
    /\ LET w == workers[i]
           r == add_item_read(items, itemsNil, w.name, w.size, w.mtime)
       IN  IF r.panics
           THEN /\ panic' = NilMapWrite
                /\ UNCHANGED <<items, workers>>
           ELSE /\ items' = r.m
                /\ workers' = [workers EXCEPT ![i] = Waiting(in_pipe)]
                /\ UNCHANGED panic
    /\ UNCHANGED <<cfg, itemsNil, chans, vacs, tasks, blocked, fs, now, left, ret>>

\* ----------------------------------------------------- the maintenance loop

\* Purged with the entries that are expired by their age alone left in place.
Purged_changed(m) == [n \in {k \in DOMAIN m : ~changed(m, k)} |-> m[n]]

\* The first loop of a vaccuum cycle (lines 372-376): the expired entries go.
Purged(m) == [n \in {k \in DOMAIN m : ~item_expired(m, k)} |-> m[n]]

\* The second loop (lines 377-379): every map it may leave.
RECURSIVE Shrunk(_)
Shrunk(m) ==
    IF Cardinality(DOMAIN m) > cfg.MaxItems
    THEN UNION {Shrunk(m2) : m2 \in expire_oldest(m, TRUE)}
    ELSE {m}

\* One cycle of vaccuum, once its timer has fired: it returns on a nil store.
Vaccuum(i) ==
    /\ panic = NoPanic
    /\ vacs[i].pc = "sleep"
    /\ now >= vacs[i].wake
    /\ IF itemsNil
       THEN /\ vacs' = [vacs EXCEPT ![i] = Ended]
            /\ UNCHANGED items
       ELSE /\ items' \in Shrunk(Purged(items))
            /\ vacs' = [vacs EXCEPT ![i] = Sleeping(DOMAIN items \ DOMAIN Purged(items))]
    /\ UNCHANGED <<cfg, itemsNil, chans, workers, tasks, blocked, fs, now, left, ret, panic>>

\* ---------------------------------------------------- the read/write facade

\* FileCache.GetItem.
GetItem(name) ==
    IF name \in DOMAIN items THEN [content |-> items[name].Content, ok |-> TRUE]
    ELSE [content |-> NoContent, ok |-> FALSE]

\* FileCache.WriteItem: what reaches the writer, and the error.
write_item(name) ==
    IF name \notin DOMAIN items THEN [content |-> NoContent, err |-> ItemNotInCache]
    ELSE IF Len(items[name].Content) # items[name].Size
         THEN [content |-> items[name].Content, err |-> WriteIncomplete]
         ELSE [content |-> items[name].Content, err |-> Nil]

\* string(b) of a byte slice: the string that holds the bytes of b, one after
\* the other; the zero string is the string of no bytes.
String(b) == [i \in 1..Len(b) |-> b[i]]

\* FileCache.GetItemString.
GetItemString(name) ==
    IF name \in DOMAIN items THEN [content |-> String(items[name].Content), ok |-> TRUE]
    ELSE [content |-> String(NoContent), ok |-> FALSE]

\* read_file with the error of an uncached read left nil.
read_file_nil(name) ==
    IF InCache(name)
    THEN [content |-> GetItem(name).content, err |-> Nil, cached |-> TRUE]
    ELSE [content |-> ReadAll(name).content, err |-> Nil, cached |-> FALSE]

\* What FileCache.ReadFile returns, and whether the store answered (otherwise
\* it has started `go cache.Cache(name)`).
read_file(name) ==
    IF InCache(name)
    THEN [content |-> GetItem(name).content, err |-> Nil, cached |-> TRUE]
    ELSE LET rd == ReadAll(name)
         IN  [content |-> rd.content,
              err |-> IF rd.err = Nil THEN ItemNotInCache ELSE rd.err,
              cached |-> FALSE]

\* What FileCache.ReadFileString returns: in its else branch `raw, err :=`
\* declares a new err, so the err it returns is never assigned there, and
\* content is assigned only when the read succeeds.
read_file_string(name) ==
    IF InCache(name)
    THEN [content |-> GetItemString(name).content, err |-> Nil, cached |-> TRUE]
    ELSE LET rd == ReadAll(name)
         IN  [content |-> IF rd.err = Nil THEN String(rd.content) ELSE String(NoContent),
              err |-> Nil,
              cached |-> FALSE]

ReadFile(name) ==
    /\ panic = NoPanic
    /\ left.ops > 0
    /\ left' = Called
    /\ LET r == read_file(name)
       IN  /\ ret' = Ret("ReadFile", name, r.err, r.content, r.cached)
           /\ tasks' = IF r.cached THEN tasks ELSE tasks (+) SetToBag({name})
    /\ UNCHANGED <<cfg, items, itemsNil, chans, workers, vacs, blocked, fs, now, panic>>

ReadFileString(name) ==
    /\ panic = NoPanic
    /\ left.ops > 0
    /\ left' = Called
    /\ LET r == read_file_string(name)
       IN  /\ ret' = Ret("ReadFileString", name, r.err, r.content, r.cached)
           /\ tasks' = IF r.cached THEN tasks ELSE tasks (+) SetToBag({name})
    /\ UNCHANGED <<cfg, items, itemsNil, chans, workers, vacs, blocked, fs, now, panic>>

WriteFile(name) ==
    /\ panic = NoPanic
    /\ left.ops > 0
    /\ IF InCache(name)
       THEN /\ ret' = Ret("WriteFile", name, write_item(name).err,
                          write_item(name).content, TRUE)
            /\ left' = Called
            /\ UNCHANGED tasks
       ELSE LET fi == Stat(name)
            IN  IF fi.err # Nil
                THEN /\ ret' = Ret("WriteFile", name, fi.err, NoContent, FALSE)
                     /\ left' = Called
                     /\ UNCHANGED tasks
                ELSE IF fi.isDir
                THEN /\ ret' = Ret("WriteFile", name, ItemIsDirectory, NoContent, FALSE)
                     /\ left' = Called
                     /\ UNCHANGED tasks
                ELSE /\ left' = Called
                     /\ tasks' = tasks (+) SetToBag({name})
                     /\ ret' = Ret("WriteFile", name, Nil, ReadAll(name).content, FALSE)
    /\ UNCHANGED <<cfg, items, itemsNil, chans, workers, vacs, blocked, fs, now, panic>>

\* Remove with the test of its second lookup inverted: ok is false after a removal.
remove_inverted(m, name) ==
    IF name \in DOMAIN m THEN [m |-> Del(m, name), ok |-> name \in DOMAIN Del(m, name)]
    ELSE [m |-> m, ok |-> FALSE]

\* FileCache.Remove: the map it leaves and its ok.
remove(m, name) ==
    IF name \in DOMAIN m THEN [m |-> Del(m, name), ok |-> name \notin DOMAIN Del(m, name)]
    ELSE [m |-> m, ok |-> FALSE]

Remove(name) ==
    /\ panic = NoPanic
    /\ left.ops > 0
    /\ left' = Called
    /\ items' = remove(items, name).m
    /\ ret' = Ret("Remove", name, Nil, NoContent, remove(items, name).ok)
    /\ UNCHANGED <<cfg, itemsNil, chans, workers, vacs, tasks, blocked, fs, now, panic>>

\* ---------------------------------------------------------- the environment

\* The clock advances.
Tick ==
    /\ panic = NoPanic
    /\ now < 10 * MaxTicks
    /\ now' = now + 10
    /\ UNCHANGED <<cfg, items, itemsNil, chans, workers, vacs, tasks, blocked, fs, left, ret, panic>>

\* Another process gives a regular file a new content (or creates it); the
\* filesystem's timestamps tell two writes of a file apart.
EnvWrite(name, c) ==
    /\ panic = NoPanic
    /\ left.fsops > 0
    /\ fs[name].kind # "dir"
    /\ fs[name].content # c
    /\ now > fs[name].mtime
    /\ fs' = [fs EXCEPT ![name] = File(c, now)]
    /\ left' = Passed
    /\ UNCHANGED <<cfg, items, itemsNil, chans, workers, vacs, tasks, blocked, now, ret, panic>>

\* Another process removes a regular file.
EnvRemove(name) ==
    /\ panic = NoPanic
    /\ left.fsops > 0
    /\ fs[name].kind = "file"
    /\ fs' = [fs EXCEPT ![name] = [kind |-> "none", content |-> NoContent, mtime |-> @.mtime]]
    /\ left' = Passed
    /\ UNCHANGED <<cfg, items, itemsNil, chans, workers, vacs, tasks, blocked, now, ret, panic>>

\* ------------------------------------------------------- the specification

Caller ==
    \/ Start
    \/ Stop
    \/ \E name \in Names : CacheNow(name)
    \/ \E name \in Names : Cache(name)
    \/ \E name \in Names : ReadFile(name)
    \/ \E name \in Names : WriteFile(name)
    \/ \E name \in Names : Remove(name)

Background ==
    \/ \E name \in BagToSet(tasks) : TaskCache(name)
    \/ \E i \in 1..Len(workers) : WorkerRecv(i)
    \/ \E i \in 1..Len(workers) : WorkerRead(i)
    \/ \E i \in 1..Len(vacs) : Vaccuum(i)

Environment ==
    \/ Tick
    \/ \E name \in Names, c \in Contents : EnvWrite(name, c)
    \/ \E name \in Names : EnvRemove(name)

Next == Caller \/ Background \/ Environment

Spec == Init /\ [][Next]_vars

\* ------------------------------------------- the staleness policy alone

\* A started cache that holds one entry, populated at time 0 from a file that
\* stays as it is, with any ExpireItem of 1..MaxExpireItem seconds.
InitExpired ==
    /\ cfg \in [MaxItems : {1}, ExpireItem : 1..MaxExpireItem, Every : {0}]
    /\ items = [n \in {"a"} |->
                  [Content |-> <<1>>, Size |-> 1, Modified |-> -1, Lastaccess |-> 0]]
    /\ itemsNil = FALSE
    /\ chans = <<[closed |-> FALSE, buf |-> <<>>]>>
    /\ workers = <<Waiting(1)>>
    /\ vacs = <<Ended>>
    /\ tasks = EmptyBag
    /\ blocked = EmptyBag
    /\ fs = [n \in Names |->
                IF n = "d" THEN [kind |-> "dir", content |-> NoContent, mtime |-> -1]
                ELSE File(<<1>>, -1)]
    /\ now = 0
    /\ left = [ops |-> 0, fsops |-> 0]
    /\ ret = NoRet
    /\ panic = NoPanic

\* A tenth of a second passes.
Elapse ==
    /\ now < MaxAge
    /\ now' = now + 1
    /\ ret' = NoRet
    /\ UNCHANGED <<cfg, items, itemsNil, chans, workers, vacs, tasks, blocked, fs, left, panic>>

\* The staleness check of an entry, as add_item and vaccuum make it: ok is
\* what item_expired returns.
ItemExpired(name) ==
    /\ name \in DOMAIN items
    /\ ret' = Ret("item_expired", name, Nil, NoContent, item_expired(items, name))
    /\ UNCHANGED <<cfg, items, itemsNil, chans, workers, vacs, tasks, blocked, fs, now, left, panic>>

NextExpired == Elapse \/ \E name \in Names : ItemExpired(name)

SpecExpired == InitExpired /\ [][NextExpired]_vars

\* -------------------------------------------- the eviction policy alone

\* A started cache with an empty store, ExpireItem = 0 and no maintenance
\* loop; all three paths are regular files that fit, and stay as they are.
InitEvict ==
    /\ cfg \in [MaxItems : {1, 2}, ExpireItem : {0}, Every : {0}]
    /\ items = EmptyMap
    /\ itemsNil = FALSE
    /\ chans = <<[closed |-> FALSE, buf |-> <<>>]>>
    /\ workers = <<Waiting(1)>>
    /\ vacs = <<Ended>>
    /\ tasks = EmptyBag
    /\ blocked = EmptyBag
    /\ fs = [n \in Names |-> File(<<1>>, -1)]
    /\ now = 0
    /\ left = [ops |-> MaxEvictOps, fsops |-> 0]
    /\ ret = NoRet
    /\ panic = NoPanic

NextEvict == Tick \/ \E name \in Names : CacheNow(name)

SpecEvict == InitEvict /\ [][NextEvict]_vars

\* ------------------------------------------------- the read facade alone

\* A started cache with an empty store and no maintenance loop, over two
\* regular files and a directory; the caller populates and reads, the
\* environment rewrites or removes a file, and the goroutines of the reads run.
InitFacade ==
    /\ cfg \in [MaxItems : {1, 2}, ExpireItem : {0}, Every : {0}]
    /\ items = EmptyMap
    /\ itemsNil = FALSE
    /\ chans = <<[closed |-> FALSE, buf |-> <<>>]>>
    /\ workers = <<Waiting(1)>>
    /\ vacs = <<Ended>>
    /\ tasks = EmptyBag
    /\ blocked = EmptyBag
    /\ fs = [n \in Names |->
                IF n = "d" THEN [kind |-> "dir", content |-> NoContent, mtime |-> -1]
                ELSE File(<<1>>, -1)]
    /\ now = 0
    /\ left = [ops |-> MaxFacadeOps, fsops |-> MaxFsOps]
    /\ ret = NoRet
    /\ panic = NoPanic

NextFacade ==
    \/ \E name \in Names : CacheNow(name)
    \/ \E name \in Names : ReadFile(name)
    \/ \E name \in Names : ReadFileString(name)
    \/ \E name \in BagToSet(tasks) : TaskCache(name)
    \/ \E i \in 1..Len(workers) : WorkerRecv(i)
    \/ \E i \in 1..Len(workers) : WorkerRead(i)
    \/ Tick
    \/ \E name \in Names, c \in Contents : EnvWrite(name, c)
    \/ \E name \in Names : EnvRemove(name)

SpecFacade == InitFacade /\ [][NextFacade]_vars

\* ------------------------------------------------- the store accesses alone

\* Here an access of the store by a goroutine takes two steps, its beginning
\* and its end, so that a state shows who is inside one: the worker in the
\* assignment of add_item (line 284), vaccuum in its loops over the map (lines
\* 372-379).  The code takes no lock, so nothing guards the beginnings.  The
\* runtime may end the process when it finds the map written and ranged over
\* at once, or not notice.

Inserting(c, name, content, size, mtime) ==
    [pc |-> "insert", ch |-> c, name |-> name, size |-> size, mtime |-> mtime,
     content |-> content]

Scanning(wake) == [pc |-> "scan", wake |-> wake, swept |-> {}]

Inserters == {i \in 1..Len(workers) : workers[i].pc = "insert"}

Scanners == {i \in 1..Len(vacs) : vacs[i].pc = "scan"}

\* A started cache with an empty store and a maintenance loop, over two
\* regular files and a directory that stay as they are.
InitRace ==
    /\ cfg \in [MaxItems : {1, 2}, ExpireItem : {0, 1}, Every : {1}]
    /\ items = EmptyMap
    /\ itemsNil = FALSE
    /\ chans = <<[closed |-> FALSE, buf |-> <<>>]>>
    /\ workers = <<Waiting(1)>>
    /\ now = 0
    /\ vacs = <<vaccuum_start>>
    /\ tasks = EmptyBag
    /\ blocked = EmptyBag
    /\ fs = [n \in Names |->
                IF n = "d" THEN [kind |-> "dir", content |-> NoContent, mtime |-> -1]
                ELSE File(<<1>>, -1)]
    /\ left = [ops |-> MaxRaceOps, fsops |-> 0]
    /\ ret = NoRet
    /\ panic = NoPanic

\* add_item reads the file (line 274) and, having built the item, begins the
\* assignment into the map.
InsertBegin(i) ==
    /\ panic = NoPanic
    /\ workers[i].pc = "read"
    /\ LET w == workers[i]
           rd == ReadAll(w.name)
       IN  workers' = [workers EXCEPT ![i] =
              IF rd.err # Nil THEN Waiting(in_pipe)
              ELSE Inserting(w.ch, w.name, rd.content, w.size, w.mtime)]
    /\ UNCHANGED <<cfg, items, itemsNil, chans, vacs, tasks, blocked, fs, now, left, ret, panic>>

\* The assignment ends, and item_listener loops.
InsertEnd(i) ==
    /\ panic = NoPanic
    /\ workers[i].pc = "insert"
    /\ LET w == workers[i]
           itm == [Content |-> w.content, Size |-> w.size,
                   Modified |-> w.mtime, Lastaccess |-> now]
       IN  \/ /\ items' = Put(items, w.name, itm)
              /\ workers' = [workers EXCEPT ![i] = Waiting(in_pipe)]
              /\ UNCHANGED panic
           \/ /\ Scanners # {}
              /\ panic' = ConcurrentMap
              /\ UNCHANGED <<items, workers>>
    /\ UNCHANGED <<cfg, itemsNil, chans, vacs, tasks, blocked, fs, now, left, ret>>

\* vaccuum's timer fires; it returns on a nil store, and else begins to range
\* over the map.
ScanBegin(i) ==
    /\ panic = NoPanic
    /\ vacs[i].pc = "sleep"
    /\ now >= vacs[i].wake
    /\ vacs' = [vacs EXCEPT ![i] = IF itemsNil THEN Ended ELSE Scanning(@.wake)]
    /\ UNCHANGED <<cfg, items, itemsNil, chans, workers, tasks, blocked, fs, now, left, ret, panic>>

\* The loops of the cycle end, and vaccuum sleeps again.
ScanEnd(i) ==
    /\ panic = NoPanic
    /\ vacs[i].pc = "scan"
    /\ \/ /\ items' \in Shrunk(Purged(items))
          /\ vacs' = [vacs EXCEPT ![i] = Sleeping(DOMAIN items \ DOMAIN Purged(items))]
          /\ UNCHANGED panic
       \/ /\ Inserters # {}
          /\ panic' = ConcurrentMap
          /\ UNCHANGED <<items, vacs>>
    /\ UNCHANGED <<cfg, itemsNil, chans, workers, tasks, blocked, fs, now, left, ret>>

NextRace ==
    \/ \E name \in Names : Cache(name)
    \/ \E i \in 1..Len(workers) : WorkerRecv(i)
    \/ \E i \in 1..Len(workers) : InsertBegin(i)
    \/ \E i \in 1..Len(workers) : InsertEnd(i)
    \/ \E i \in 1..Len(vacs) : ScanBegin(i)
    \/ \E i \in 1..Len(vacs) : ScanEnd(i)
    \/ Tick

SpecRace == InitRace /\ [][NextRace]_vars

\* ------------------------------------------------ the end of the goroutines

\* NewCache, as in Init, with files that stay as they are.
InitLive ==
    /\ cfg \in Configs
    /\ items = EmptyMap
    /\ itemsNil = TRUE
    /\ chans = <<>>
    /\ workers = <<>>
    /\ vacs = <<>>
    /\ tasks = EmptyBag
    /\ blocked = EmptyBag
    /\ fs = [n \in Names |->
                IF n = "d" THEN [kind |-> "dir", content |-> NoContent, mtime |-> -1]
                ELSE File(<<1>>, -1)]
    /\ now = 0
    /\ left = [ops |-> MaxLiveOps, fsops |-> 0]
    /\ ret = NoRet
    /\ panic = NoPanic

\* The timers of vaccuum that have not fired yet.
PendingTimers == {i \in 1..Len(vacs) : vacs[i].pc = "sleep" /\ now < vacs[i].wake}

\* A second passes: within the bound, and beyond it as long as a vaccuum of a
\* stopped cache waits for its timer.
Wait ==
    /\ panic = NoPanic
    /\ now < 10 * MaxTicks \/ (itemsNil /\ PendingTimers # {})
    /\ now' = now + 10
    /\ UNCHANGED <<cfg, items, itemsNil, chans, workers, vacs, tasks, blocked, fs, left, ret, panic>>

WorkerStep(i) == i \in 1..Len(workers) /\ (WorkerRecv(i) \/ WorkerRead(i))

VaccuumStep(i) == i \in 1..Len(vacs) /\ Vaccuum(i)

NextLive ==
    \/ Start
    \/ Stop
    \/ \E name \in Names : Cache(name)
    \/ \E i \in 1..MaxLiveOps : WorkerStep(i)
    \/ \E i \in 1..MaxLiveOps : VaccuumStep(i)
    \/ Wait

\* The scheduler runs every goroutine that can take a step, and time passes.
SpecLive ==
    /\ InitLive
    /\ [][NextLive]_vars
    /\ \A i \in 1..MaxLiveOps : WF_vars(WorkerStep(i)) /\ WF_vars(VaccuumStep(i))
    /\ WF_vars(Wait)

\* ---------------------------------------------------------- the queue alone

\* A started cache that stays active, with an empty store and no maintenance
\* loop, over a regular file, a missing file and a directory that stay as they
\* are.  Cache is called from any number of goroutines, so that one call can
\* be made while another is blocked.
InitQueue ==
    /\ cfg \in [MaxItems : {1, 2}, ExpireItem : {0}, Every : {0}]
    /\ items = EmptyMap
    /\ itemsNil = FALSE
    /\ chans = <<[closed |-> FALSE, buf |-> <<>>]>>
    /\ workers = <<Waiting(1)>>
    /\ vacs = <<Ended>>
    /\ tasks = EmptyBag
    /\ blocked = EmptyBag
    /\ fs = [n \in Names |->
                CASE n = "d" -> [kind |-> "dir", content |-> NoContent, mtime |-> -1]
                  [] n = "b" -> [kind |-> "none", content |-> NoContent, mtime |-> -1]
                  [] OTHER   -> File(<<1>>, -1)]
    /\ now = 0
    /\ left = [ops |-> MaxQueueOps, fsops |-> 0]
    /\ ret = NoRet
    /\ panic = NoPanic

\* The sends that may be blocked on the queue.
Sends == [name : Names, ch : {1}]

SendStep(t) == BagIn(t, blocked) /\ BlockedSend(t)

NextQueue ==
    \/ \E name \in Names : Cache(name)
    \/ \E t \in Sends : SendStep(t)
    \/ WorkerRecv(1)
    \/ WorkerRead(1)

\* The scheduler runs item_listener whenever it can take a step, and the
\* runtime wakes the blocked senders of a channel in the order they came, so
\* that none is passed over for ever.
SpecQueue ==
    /\ InitQueue
    /\ [][NextQueue]_vars
    /\ WF_vars(WorkerRecv(1))
    /\ WF_vars(WorkerRead(1))
    /\ \A t \in Sends : SF_vars(SendStep(t))

\* ------------------------------------------------------------- the claims

\* The worker of Start i receives name and runs add_item on it.
WorkerAdds(i, name) ==
    /\ WorkerRecv(i)
    /\ chans[workers[i].ch].buf # <<>>
    /\ Head(chans[workers[i].ch].buf) = name

\* The entry of name is fresh: the file exists with the mtime the entry holds
\* and, when ExpireItem is not 0, the entry is younger than ExpireItem seconds.
Fresh(name) ==
    /\ name \in DOMAIN items
    /\ fs[name].kind # "none"
    /\ fs[name].mtime = items[name].Modified
    /\ cfg.ExpireItem # 0 => now - items[name].Lastaccess < 10 * cfg.ExpireItem

\* name is a regular file no larger than MaxSize.
Cacheable(name) == fs[name].kind = "file" /\ Len(fs[name].content) <= MaxSize

\* name is a regular file larger than MaxSize.
TooLarge(name) == fs[name].kind = "file" /\ Len(fs[name].content) > MaxSize

\* The file of a stored entry has another mtime than the entry holds, or is gone.
ChangedOnDisk(name) ==
    /\ name \in DOMAIN items
    /\ (fs[name].kind = "none" \/ fs[name].mtime # items[name].Modified)

\* C1: whenever ReadFile or WriteFile answers from the store, the entry it
\* answers with is fresh at that moment.
C1_NeverServesStale ==
    [][\A n \in Names : ((ReadFile(n) \/ WriteFile(n)) /\ ret'.ok) => Fresh(n)]_vars

\* C2: every time a population finishes (CacheNow returns, the worker ends
\* add_item) the store holds at most MaxItems entries.
C2_PopulationKeepsCeiling ==
    [][((\E n \in Names : CacheNow(n) /\ panic' = NoPanic)
        \/ (\E i \in 1..Len(workers) :
               \/ WorkerRead(i) /\ panic' = NoPanic
               \/ \E n \in Names : WorkerAdds(i, n) /\ workers'[i].pc = "recv"))
       => Cardinality(DOMAIN items') <= cfg.MaxItems]_vars

\* C3: when CacheNow(n) returns for a regular file no larger than MaxSize, n is
\* in the cache and GetItem(n) is the content of the file.
C3_CacheNowCaches ==
    [][\A n \in Names : (CacheNow(n) /\ Cacheable(n) /\ panic' = NoPanic)
          => /\ InCache(n)'
             /\ GetItem(n)'.ok
             /\ GetItem(n)'.content = fs[n].content
             /\ ret'.err = Nil]_vars

\* C3's case: CacheNow has replaced a stale entry by the file's new content.
C3_Witness ==
    /\ ret.op = "CacheNow"
    /\ ret.err = Nil
    /\ InCache(ret.name)
    /\ fs[ret.name].mtime >= 0
    /\ items[ret.name].Content = fs[ret.name].content
    /\ items[ret.name].Modified = fs[ret.name].mtime
    /\ Size = cfg.MaxItems

\* C4: populating a file larger than MaxSize, by CacheNow or by the worker,
\* leaves the store as it was, and CacheNow reports ItemTooLarge.
C4_TooLargeLeavesStore ==
    [][\A n \in Names : TooLarge(n) =>
          /\ CacheNow(n) /\ panic' = NoPanic => items' = items /\ ret'.err = ItemTooLarge
          /\ \A i \in 1..Len(workers) : WorkerAdds(i, n) => items' = items]_vars

\* C5: no key of the store is a directory, CacheNow of a directory returns
\* ItemIsDirectory, and WriteFile of an uncached directory returns
\* ItemIsDirectory and requests no population.
C5_DirectoryNeverCached ==
    [][/\ \A n \in DOMAIN items' : fs'[n].kind # "dir"
       /\ \A n \in Names : fs[n].kind = "dir" =>
            /\ CacheNow(n) => ret'.err = ItemIsDirectory
            /\ WriteFile(n) /\ ~InCache(n) =>
                  /\ ret'.err = ItemIsDirectory
                  /\ tasks' = tasks /\ chans' = chans /\ blocked' = blocked]_vars

\* C5's case: CacheNow of the directory has returned on an active cache.
C5_Witness ==
    /\ ret.op = "CacheNow"
    /\ fs[ret.name].kind = "dir"
    /\ ret.err = ItemIsDirectory
    /\ Active
    /\ items # EmptyMap

\* C6: an entry whose file has another mtime or is gone does not survive the
\* next maintenance cycle, and the next population of its name (CacheNow, or
\* the worker's add_item) discards it, whatever ExpireItem is.
C6_ChangedFileIsEvicted ==
    [][\A n \in Names : ChangedOnDisk(n) =>
          /\ \A i \in 1..Len(vacs) : Vaccuum(i) /\ ~itemsNil => n \notin DOMAIN items'
          /\ CacheNow(n) /\ panic' = NoPanic =>
                \/ n \notin DOMAIN items'
                \/ /\ items'[n].Content = fs[n].content
                   /\ items'[n].Modified = fs[n].mtime
          /\ \A i \in 1..Len(workers) : WorkerAdds(i, n) => n \notin DOMAIN items']_vars

\* C6's case: with ExpireItem = 0, a maintenance cycle has deleted an entry as
\* expired, which only a change on disk makes it.
C6_Witness ==
    /\ cfg.ExpireItem = 0
    /\ \E i \in 1..Len(vacs) : vacs[i].swept # {}

\* C7: with ExpireItem = N > 0 and an unchanged file, item_expired holds of an
\* entry exactly when its last access is at least N seconds old, at every age
\* in tenths of a second.
C7_ExpiresAtNSeconds ==
    (ret.op = "item_expired" /\ ~ChangedOnDisk(ret.name))
        => (ret.ok <=> now - items[ret.name].Lastaccess >= 10 * cfg.ExpireItem)

\* C8: Remove of a present key returns ok and leaves the key absent and every
\* other entry as it was; Remove of an absent key returns not ok and changes
\* nothing of the store.
C8_Remove ==
    [][\A n \in Names : Remove(n) =>
          IF n \in DOMAIN items
          THEN /\ ret'.ok
               /\ ~InCache(n)'
               /\ DOMAIN items' = DOMAIN items \ {n}
               /\ \A o \in DOMAIN items' : items'[o] = items[o]
          ELSE /\ ~ret'.ok
               /\ items' = items
               /\ itemsNil' = itemsNil]_vars

\* C8's case: Remove has removed one entry of two.
C8_Witness ==
    /\ ret.op = "Remove"
    /\ ret.ok
    /\ ~InCache(ret.name)
    /\ items # EmptyMap

\* A Stop has left the cache inert: the store is nil and the queue is closed.
Stopped == itemsNil /\ in_pipe # 0

\* C9: a Start after a Stop completes and leaves an empty, active cache.
C9_Reactivation ==
    [][(Start /\ Stopped) => panic' = NoPanic /\ Size' = 0 /\ Active']_vars

\* C10: no Start and no Stop panics, and a Start leaves an empty store.
C10_StartStopNeverPanic ==
    [][(Start \/ Stop) =>
          /\ panic' = NoPanic
          /\ Start => items' = EmptyMap /\ ~itemsNil']_vars

\* Every stored entry is fresh.
AllFresh == \A n \in DOMAIN items : Fresh(n)

\* C11: with ExpireItem = 0 and a store of exactly MaxItems fresh entries,
\* CacheNow of an absent regular file that fits removes exactly one entry, one
\* of the least Lastaccess, stores the new key and leaves MaxItems entries.
C11_EvictsOneOldest ==
    [][\A n \in Names :
          (/\ CacheNow(n)
           /\ ~itemsNil /\ cfg.ExpireItem = 0
           /\ Size = cfg.MaxItems /\ AllFresh
           /\ n \notin DOMAIN items /\ Cacheable(n))
          => /\ n \in DOMAIN items'
             /\ Cardinality(DOMAIN items') = cfg.MaxItems
             /\ \E v \in DOMAIN items :
                   /\ DOMAIN items' = (DOMAIN items \ {v}) \cup {n}
                   /\ \A o \in DOMAIN items : items[v].Lastaccess <= items[o].Lastaccess
                   /\ \A o \in DOMAIN items \ {v} : items'[o] = items[o]]_vars

\* C11's case: with MaxItems = 2, the third file has been populated after the
\* other two, and of those the one populated a second earlier is gone.
C11_Witness ==
    /\ cfg.MaxItems = 2
    /\ ret.op = "CacheNow" /\ ret.name = "d" /\ ret.err = Nil
    /\ DOMAIN items = {"b", "d"}
    /\ items["b"].Lastaccess = 10 /\ items["d"].Lastaccess = 10
    /\ left.ops = MaxEvictOps - 3

\* A goroutine running Cache(name) is started by the step.
Spawns(name) == tasks' = tasks (+) SetToBag({name})

\* Nothing is started or queued by the step.
QueuesNothing == tasks' = tasks /\ chans' = chans /\ blocked' = blocked

\* C12: ReadFile of a cached name returns the stored content with a nil error
\* and queues nothing; of an uncached readable file, the file's content with
\* ItemNotInCache, starting one background population; of an uncached
\* unreadable name, an error that is neither nil nor ItemNotInCache.
C12_ReadFileOutcomes ==
    [][\A n \in Names : ReadFile(n) =>
          IF n \in DOMAIN items
          THEN /\ ret'.content = items[n].Content
               /\ ret'.err = Nil
               /\ QueuesNothing
          ELSE IF fs[n].kind = "file"
          THEN /\ ret'.content = fs[n].content
               /\ ret'.err = ItemNotInCache
               /\ Spawns(n)
          ELSE ret'.err \notin {Nil, ItemNotInCache}]_vars

\* C12's case: ReadFile has read an uncached file from the filesystem, and the
\* population it started has put the name on the queue.
C12_Witness ==
    /\ ret.op = "ReadFile"
    /\ ret.err = ItemNotInCache
    /\ ret.content = fs[ret.name].content
    /\ chans[in_pipe].buf = <<ret.name>>

\* C13: ReadFileString returns the error ReadFile returns in the same state,
\* and the string of the content ReadFile returns.
C13_ReadFileStringAgrees ==
    [][\A n \in Names : ReadFileString(n) =>
          /\ ret'.err = read_file(n).err
          /\ ret'.content = String(read_file(n).content)]_vars

\* The item_listener goroutines that receive from the current queue.
Listeners == {i \in 1..Len(workers) : workers[i].pc = "recv" /\ workers[i].ch = in_pipe}

\* The vaccuum goroutines that are in their loop.
Sweepers == {i \in 1..Len(vacs) : vacs[i].pc = "sleep"}

\* C14: at most one item_listener receives from the current queue and at most
\* one maintenance loop runs, whatever Starts have been made.
C14_OneWorkerOneSweeper ==
    /\ Cardinality(Listeners) <= 1
    /\ Cardinality(Sweepers) <= 1

\* C15: at no time are two goroutines inside an access of the store of which
\* one writes or ranges over the map: the worker's insert and the loops of
\* vaccuum exclude each other.
C15_StoreAccessesExclusive == Cardinality(Inserters) + Cardinality(Scanners) <= 1

\* C16: the worker never panics: whatever keys were pending and wherever it
\* was in add_item when Stop ran, it does not insert into the nil store.
C16_WorkerToleratesStop ==
    [][\A i \in 1..Len(workers) : (WorkerRecv(i) \/ WorkerRead(i)) => panic' = NoPanic]_vars

\* C17: the Size of every stored entry is the length of its Content.
C17_SizeIsLenContent == \A n \in DOMAIN items : items[n].Size = Len(items[n].Content)

\* C18: a maintenance cycle on a started cache leaves no entry that
\* item_expired held of when the cycle ran, and at most MaxItems entries; with
\* Every = 0 every vaccuum goroutine has returned, so that no cycle ever runs.
C18_SweepPurgesAndShrinks ==
    [][/\ \A i \in 1..Len(vacs) : (Vaccuum(i) /\ ~itemsNil) =>
             /\ \A n \in DOMAIN items : item_expired(items, n) => n \notin DOMAIN items'
             /\ DOMAIN items' \subseteq DOMAIN items
             /\ Cardinality(DOMAIN items') <= cfg.MaxItems
       /\ cfg.Every = 0 =>
             /\ \A i \in 1..Len(vacs') : vacs'[i].pc = "done"
             /\ \A i \in 1..Len(vacs) : ~Vaccuum(i)]_vars

\* C18's case: a cycle has deleted an entry whose file is unchanged, expired
\* by its age, and sleeps again.
C18_Witness ==
    /\ cfg.ExpireItem = 1
    /\ \E i \in 1..Len(vacs) :
          /\ vacs[i].pc = "sleep"
          /\ \E n \in vacs[i].swept : n \notin DOMAIN items /\ fs[n] = File(<<1>>, -1)

\* Every item_listener and every vaccuum goroutine has returned.
BackgroundDone ==
    /\ \A i \in 1..Len(workers) : workers[i].pc = "done"
    /\ \A i \in 1..Len(vacs) : vacs[i].pc = "done"

\* C19: once Stop has run, every item_listener and every vaccuum goroutine
\* eventually returns, whatever the caller does next.
C19_BackgroundEndsAfterStop == (Stopped /\ panic = NoPanic) ~> BackgroundDone

\* No call of Cache is blocked, the queue is empty and item_listener waits.
Quiescent ==
    /\ blocked = EmptyBag
    /\ chans[in_pipe].buf = <<>>
    /\ workers[1].pc = "recv"

\* C20: the queue never holds more than NewCachePipeSize keys; a call of Cache
\* blocks exactly when the queue is full and else appends its key; no failed
\* population makes item_listener return; and again and again every blocked
\* call has completed and every queued key has gone through add_item.
C20_QueueBoundedAndDrained ==
    /\ [](\A c \in 1..Len(chans) : Len(chans[c].buf) <= NewCachePipeSize)
    /\ [][\A n \in Names : Cache(n) =>
             IF Len(chans[in_pipe].buf) = NewCachePipeSize
             THEN blocked' = blocked (+) SetToBag({[name |-> n, ch |-> in_pipe]})
                  /\ chans' = chans
             ELSE blocked' = blocked
                  /\ chans'[in_pipe].buf = Append(chans[in_pipe].buf, n)]_vars
    /\ [](workers[1].pc # "done" /\ panic = NoPanic)
    /\ []<>Quiescent

\* C20's case: the queue is full, a call of Cache is blocked on it, and
\* item_listener is inside add_item of the key it has received.
C20_Witness ==
    /\ Len(chans[in_pipe].buf) = NewCachePipeSize
    /\ BagCardinality(blocked) = 1
    /\ workers[1].pc = "read"
    /\ left.ops = 0

====
